---- MODULE Spec2Model ----
(***************************************************************************)
(* yamp: the configuration loader (app/core/config.py) and the Prometheus  *)
(* query client (app/core/prometheus.py).                                  *)
(*                                                                         *)
(* JSON and YAML values are records of a fixed shape per level, with a tag *)
(* field saying which Python type the decoder produced.  Exceptions are    *)
(* named by their Python class.  A float is written as the literal Python  *)
(* prints for it ("1" parses to "1.0").                                    *)
(***************************************************************************)
EXTENDS Integers, Sequences, FiniteSets, TLC

VARIABLES
    raw_data,      \* the argument of a direct _transform_data call
    transformed,   \* what that call did: returned list or escaping exception
    _client,       \* per PrometheusClient: self._client (0 is None, else a session id)
    sessions,      \* the httpx.AsyncClient objects created so far, by id
    scopes,        \* per client: the `async with` blocks entered and not yet left
    raised,        \* per client: the exception propagating in its caller, or "None"
    server,        \* what the Prometheus endpoint answers to a GET
    calls,         \* per client: fetch_metric calls made
    requests,      \* per client: HTTP requests that reached the network
    last,          \* per client: outcome of its latest fetch_metric call
    previous,      \* per client: outcome of the fetch_metric call before that one
    query_url,     \* per PrometheusClient: self.query_url
    environ,       \* os.environ: the YAMP_* variables
    files,         \* the file system: what is at each path
    loaded         \* outcome of the load_config call

transform_vars == <<raw_data, transformed>>

client_vars ==
    <<_client, sessions, scopes, raised, server, calls, requests, last, previous,
      query_url>>

config_vars == <<environ, files, loaded>>

vars == <<transform_vars, client_vars, config_vars>>

(***************************************************************************)
(* Bounds.                                                                 *)
(***************************************************************************)
\* longest "result" array of a response
MaxSeries == 2

\* httpx.AsyncClient objects created in one run
MaxSessions == 3

\* fetch_metric calls per client in one run
MaxCalls == 2

(***************************************************************************)
(* Response payload shapes.                                                *)
(***************************************************************************)
\* One element of a "value" array (or one character of a "value" string).
Elem(et, txt) == [et |-> et, txt |-> txt]

Timestamp == Elem("num", "0")

\* item["value"]: vt is the decoded type; elems are the elements of a list,
\* or the one-character substrings of a str (both are subscriptable).
Value(vt, elems) == [vt |-> vt, elems |-> elems]

NoValue == Value("absent", <<>>)

\* item["metric"]: a label mapping is a set of <<key, value>> pairs.
Metric(mt, labels) == [mt |-> mt, labels |-> labels]

NoMetric == Metric("absent", {})

\* One entry of the "result" array.
Item(shape, metric, value) == [shape |-> shape, metric |-> metric, value |-> value]

NonMapping(shape) == Item(shape, NoMetric, NoValue)

\* "result": rt is the decoded type, items the entries of a list.
Result(rt, items) == [rt |-> rt, items |-> items]

\* "data": dt is the decoded type.
Data(dt, result) == [dt |-> dt, result |-> result]

NoResult == Result("absent", <<>>)

NoData == Data("absent", NoResult)

\* The decoded top-level mapping handed to _transform_data.
RawData(status, error, data) == [status |-> status, error |-> error, data |-> data]

SeqsUpTo(S, n) == UNION { [1..k -> S] : k \in 0..n }

(***************************************************************************)
(* float(): Python's conversion of the second element.                     *)
(***************************************************************************)
\* str arguments float() accepts, with the float they denote
FloatLiterals ==
    [s \in {"0.85", "1", "0", "1.23", "2", "NaN"} |->
        CASE s = "0.85" -> "0.85"
          [] s = "1"    -> "1.0"
          [] s = "0"    -> "0.0"
          [] s = "1.23" -> "1.23"
          [] s = "2"    -> "2.0"
          [] s = "NaN"  -> "nan"]

\* float(e): <<"ok", f>> or <<"raise", exception class>>
float(e) ==
    CASE e.et = "str" ->
            IF e.txt \in DOMAIN FloatLiterals
                THEN <<"ok", FloatLiterals[e.txt]>>
                ELSE <<"raise", "ValueError">>
      [] e.et = "num"  -> <<"ok", FloatLiterals[e.txt]>>
      [] e.et = "bool" -> <<"ok", IF e.txt = "true" THEN "1.0" ELSE "0.0">>
      [] OTHER         -> <<"raise", "TypeError">>

\* the default of item.get("value", [0, "0"])
DefaultValue == Value("list", <<Timestamp, Elem("str", "0")>>)

\* v[1]: <<"ok", element>> or <<"raise", exception class>>
Subscript1(v) ==
    CASE v.vt \in {"list", "str"} ->
            IF Len(v.elems) >= 2
                THEN <<"ok", v.elems[2]>>
                ELSE <<"raise", "IndexError">>
      [] v.vt = "dict" -> <<"raise", "KeyError">>
      [] OTHER         -> <<"raise", "TypeError">>

\* The exceptions the loop body catches.
CaughtInLoop == {"ValueError", "IndexError"}

\* One pass of the loop body on item:
\* <<"emit", entry>>, <<"skip", exc>> (caught, logged) or <<"raise", exc>>.
TransformItem(item) ==
    IF item.shape # "dict"
        THEN <<"raise", "AttributeError">>
        ELSE
            LET v   == IF item.value.vt = "absent" THEN DefaultValue ELSE item.value
                sub == Subscript1(v)
                f   == IF sub[1] = "ok" THEN float(sub[2]) ELSE sub
            IN  IF f[1] = "ok"
                    THEN <<"emit",
                           [metric |-> IF item.metric.mt = "absent"
                                          THEN Metric("dict", {})
                                          ELSE item.metric,
                            value  |-> f[2]]>>
                    ELSE IF f[2] \in CaughtInLoop
                        THEN <<"skip", f[2]>>
                        ELSE <<"raise", f[2]>>

\* An outcome of a call: the returned list, or the exception that escapes
\* (its class, and for PrometheusClientError the two parts of its message).
Returned(results) == [exc |-> "none", prefix |-> "", detail |-> "", results |-> results]

Escapes(exc) == [exc |-> exc, prefix |-> "", detail |-> "", results |-> <<>>]

NotCalled == [exc |-> "not-called", prefix |-> "", detail |-> "", results |-> <<>>]

RECURSIVE TransformLoop(_, _)
TransformLoop(items, results) ==
    IF items = <<>>
        THEN Returned(results)
        ELSE
            LET r == TransformItem(Head(items))
            IN  CASE r[1] = "emit" -> TransformLoop(Tail(items), Append(results, r[2]))
                  [] r[1] = "skip" -> TransformLoop(Tail(items), results)
                  [] OTHER         -> Escapes(r[2])

\* raw_data.get("data", {}).get("result", []), then the loop
_transform_data(raw) ==
    LET data == raw.data
    IN  IF data.dt \notin {"absent", "dict"}
            THEN Escapes("AttributeError")
            ELSE
                LET result == IF data.dt = "absent" THEN NoResult ELSE data.result
                \* a list yields its entries, a str its characters (str items);
                \* None and numbers are not iterable
                IN  IF result.rt \in {"absent", "list", "str"}
                        THEN TransformLoop(result.items, <<>>)
                        ELSE Escapes("TypeError")

(***************************************************************************)
(* The payloads the model draws from.                                      *)
(***************************************************************************)
LabelSets ==
    { {}, {<<"instance", "node-1">>}, {<<"instance", "node-2">>, <<"device", "eth0">>} }

Metrics == {NoMetric} \cup { Metric("dict", l) : l \in LabelSets }

SecondElems ==
    { Elem("str", "0.85"), Elem("str", "1"), Elem("str", "not-a-float"),
      Elem("num", "1"), Elem("null", ""), Elem("list", "") }

\* every shape of item["value"]
Values ==
    { NoValue, Value("null", <<>>), Value("num", <<>>), Value("dict", <<>>),
      Value("list", <<>>), Value("list", <<Timestamp>>),
      Value("list", <<Timestamp, Elem("str", "1.23"), Elem("str", "x")>>),
      Value("str", <<Elem("str", "a")>>),
      Value("str", <<Elem("str", "1"), Elem("str", "2")>>) }
    \cup { Value("list", <<Timestamp, e>>) : e \in SecondElems }

\* every shape of an entry of "result"
SeriesUniverse ==
    { Item("dict", m, v) : m \in Metrics, v \in Values }
    \cup { NonMapping("null"), NonMapping("str"), NonMapping("list") }

\* every shape of "data" over the entries S
DataShapes(S) ==
    { NoData, Data("null", NoResult), Data("list", NoResult),
      Data("dict", NoResult), Data("dict", Result("null", <<>>)),
      Data("dict", Result("num", <<>>)),
      Data("dict", Result("str", <<NonMapping("str")>>)),
      Data("dict", Result("str", <<>>)) }
    \cup { Data("dict", Result("list", items)) : items \in SeqsUpTo(S, MaxSeries) }

(***************************************************************************)
(* _transform_data called directly, as the unit test does.                 *)
(***************************************************************************)
TransformInputs == { RawData("absent", "absent", d) : d \in DataShapes(SeriesUniverse) }

CallTransform ==
    /\ transformed = NotCalled
    /\ transformed' = _transform_data(raw_data)
    /\ UNCHANGED <<raw_data, client_vars, config_vars>>

(***************************************************************************)
(* PrometheusClient.                                                       *)
(***************************************************************************)
\* The PrometheusClient instances. Every action takes the instance it acts
\* on; SpecTwo drives both, the other specifications drive "c1".
Clients == {"c1", "c2"}

\* self._client = None
None == 0

\* PrometheusClientError(f"{prefix}{detail}")
ClientError(prefix, detail) ==
    [exc |-> "PrometheusClientError", prefix |-> prefix, detail |-> detail,
     results |-> <<>>]

\* What the endpoint answers: a transport failure (httpx.RequestError), or a
\* response with a status code and a body; a JSON body has a top-level type,
\* and a top-level mapping has the fields of RawData.
Response(transport, status_code, content, top, body) ==
    [transport |-> transport, status_code |-> status_code, content |-> content,
     top |-> top, body |-> body]

EmptyBody == RawData("absent", "absent", NoData)

\* no answer: the request was not sent, or the task was cancelled first
NoResponse == Response("none", 0, "none", "none", EmptyBody)

\* response.raise_for_status(): httpx raises HTTPStatusError unless 2xx
is_success(resp) == resp.status_code \in 200..299

\* HandleResponse with the body decoded and its status field examined before
\* raise_for_status().
HandleResponse_body_first(resp) ==
    IF resp.transport = "RequestError"
        THEN ClientError("Connection to Prometheus failed: ", "transport diagnostic")
    ELSE IF resp.content = "json" /\ resp.top = "dict"
            /\ resp.body.status \notin {"absent", "success"}
        THEN ClientError("Prometheus API error: ",
                         IF resp.body.error = "absent"
                             THEN "Unknown Prometheus API error"
                             ELSE resp.body.error)
    ELSE IF ~is_success(resp)
        THEN ClientError("Prometheus returned status ", ToString(resp.status_code))
    ELSE IF resp.content # "json"
        THEN Escapes("JSONDecodeError")
    ELSE IF resp.top # "dict"
        THEN Escapes("TypeError")
    ELSE IF resp.body.status = "absent"
        THEN Escapes("KeyError")
    ELSE _transform_data(resp.body)

\* The try block of fetch_metric once the request has been answered.
HandleResponse(resp) ==
    IF resp.transport = "RequestError"
        THEN ClientError("Connection to Prometheus failed: ", "transport diagnostic")
    ELSE IF ~is_success(resp)
        THEN ClientError("Prometheus returned status ", ToString(resp.status_code))
    ELSE IF resp.content # "json"
        THEN Escapes("JSONDecodeError")
    ELSE IF resp.top # "dict"
        THEN Escapes("TypeError")
    ELSE IF resp.body.status = "absent"
        THEN Escapes("KeyError")
    ELSE IF resp.body.status # "success"
        THEN ClientError("Prometheus API error: ",
                         IF resp.body.error = "absent"
                             THEN "Unknown Prometheus API error"
                             ELSE resp.body.error)
    ELSE _transform_data(resp.body)

\* self._client.get(...) puts a request on the wire: httpx refuses to send
\* on an AsyncClient that has been closed.
SendsRequest(c) == _client[c] # None /\ sessions[_client[c]].state = "open"

\* fetch_metric(query) on client c; cancelled: the caller's task is cancelled
\* while the request is pending.
fetch_metric(c, cancelled) ==
    IF _client[c] = None
        THEN ClientError("Client not initialized. Use 'async with'", "")
    ELSE IF sessions[_client[c]].state = "closed"
        THEN Escapes("RuntimeError")
    ELSE IF cancelled
        THEN Escapes("CancelledError")
    ELSE HandleResponse(server)

\* No `async with` block of c is open.
Unbound(c) == scopes[c] = <<>>

\* A URL as the sequence of its parts, each "/" after the authority a part
\* of its own.
Authority == "http://localhost:9090"

\* the base_url arguments: as written in the tests, as str(HttpUrl) gives
\* it, and with a doubled slash
BaseUrls == { <<Authority>>, <<Authority, "/">>, <<Authority, "/", "/">> }

RECURSIVE rstrip(_)
\* str.rstrip("/")
rstrip(url) ==
    IF url # <<>> /\ url[Len(url)] = "/"
        THEN rstrip(SubSeq(url, 1, Len(url) - 1))
        ELSE url

\* f"{self.base_url}/api/v1/query"
QueryUrl(base_url) == rstrip(base_url) \o <<"/", "api", "/", "v1", "/", "query">>

\* no request was sent
NoUrl == <<>>

\* What a fetch_metric call of c leaves on record.
CallRecord(c, out, cancelled) ==
    [outcome |-> out, unbound |-> Unbound(c), sent |-> SendsRequest(c),
     response |-> IF SendsRequest(c) /\ ~cancelled THEN server ELSE NoResponse,
     url |-> IF SendsRequest(c) THEN query_url[c] ELSE NoUrl]

\* fetch_metric dropping self._client when it raises PrometheusClientError.
FetchMetric_unbinds_on_error(c) ==
    \E cancelled \in BOOLEAN :
        /\ raised[c] = "None"
        /\ calls[c] < MaxCalls
        /\ cancelled => SendsRequest(c)
        /\ LET out == fetch_metric(c, cancelled)
           IN  /\ last' = [last EXCEPT ![c] = CallRecord(c, out, cancelled)]
               /\ raised' = [raised EXCEPT ![c] =
                                IF out.exc = "none" THEN "None" ELSE out.exc]
               /\ _client' = [_client EXCEPT ![c] =
                                 IF out.exc = "PrometheusClientError" THEN None ELSE @]
        /\ previous' = [previous EXCEPT ![c] = last[c]]
        /\ calls' = [calls EXCEPT ![c] = @ + 1]
        /\ requests' = [requests EXCEPT ![c] = IF SendsRequest(c) THEN @ + 1 ELSE @]
        /\ UNCHANGED <<sessions, scopes, server, query_url, transform_vars,
                       config_vars>>

\* fetch_metric sending the request a second time when the first attempt
\* ends in an exception.
FetchMetric_retries(c) ==
    \E cancelled \in BOOLEAN :
        /\ raised[c] = "None"
        /\ calls[c] < MaxCalls
        /\ cancelled => SendsRequest(c)
        /\ LET out == fetch_metric(c, cancelled)
           IN  /\ last' = [last EXCEPT ![c] = CallRecord(c, out, cancelled)]
               /\ raised' = [raised EXCEPT ![c] =
                                IF out.exc = "none" THEN "None" ELSE out.exc]
               /\ requests' = [requests EXCEPT ![c] =
                                  IF ~SendsRequest(c) THEN @
                                  ELSE IF out.exc \in {"none", "CancelledError"} THEN @ + 1
                                  ELSE @ + 2]
        /\ previous' = [previous EXCEPT ![c] = last[c]]
        /\ calls' = [calls EXCEPT ![c] = @ + 1]
        /\ UNCHANGED <<_client, sessions, scopes, server, query_url, transform_vars,
                       config_vars>>

FetchMetric(c) ==
    \E cancelled \in BOOLEAN :
        /\ raised[c] = "None"
        /\ calls[c] < MaxCalls
        /\ cancelled => SendsRequest(c)
        /\ LET out == fetch_metric(c, cancelled)
           IN  /\ last' = [last EXCEPT ![c] = CallRecord(c, out, cancelled)]
               /\ raised' = [raised EXCEPT ![c] =
                                IF out.exc = "none" THEN "None" ELSE out.exc]
        /\ previous' = [previous EXCEPT ![c] = last[c]]
        /\ calls' = [calls EXCEPT ![c] = @ + 1]
        /\ requests' = [requests EXCEPT ![c] = IF SendsRequest(c) THEN @ + 1 ELSE @]
        /\ UNCHANGED <<_client, sessions, scopes, server, query_url, transform_vars,
                       config_vars>>

\* httpx.AsyncClient()
NewSession(c) == [state |-> "open", aclose_calls |-> 0, owner |-> c, exit |-> "in-scope"]

\* __aenter__: self._client = httpx.AsyncClient()
__aenter__(c) ==
    /\ raised[c] = "None"
    /\ Len(sessions) < MaxSessions
    /\ sessions' = Append(sessions, NewSession(c))
    /\ _client' = [_client EXCEPT ![c] = Len(sessions) + 1]
    /\ scopes' = [scopes EXCEPT ![c] = Append(@, Len(sessions) + 1)]
    /\ UNCHANGED <<raised, server, calls, requests, last, previous, query_url,
                   transform_vars, config_vars>>

\* `async with client` entered while no block of that client is open
Enter(c) == Unbound(c) /\ __aenter__(c)

\* `async with client` entered inside an open block of the same client
Reenter(c) == ~Unbound(c) /\ __aenter__(c)

\* How a block is left, from the exc_type the `async with` statement passes.
ExitPath(exc_type) ==
    CASE exc_type = "None"           -> "normal"
      [] exc_type = "CancelledError" -> "cancelled"
      [] OTHER                       -> "raised"

\* await self._client.aclose() on session sid
aclose(ss, sid) ==
    [ss EXCEPT ![sid] = [@ EXCEPT !.state = "closed", !.aclose_calls = @ + 1]]

\* __aexit__ closing the session only when the body raised nothing.
__aexit___on_success_only(c, exc_type) ==
    IF _client[c] # None /\ exc_type = "None"
        THEN aclose(sessions, _client[c])
        ELSE sessions

\* __aexit__ closing every session there is, of any client.
__aexit___closes_all(c, exc_type) ==
    [sid \in 1..Len(sessions) |->
        [sessions[sid] EXCEPT !.state = "closed", !.aclose_calls = @ + 1]]

\* __aexit__(exc_type, ...): the sessions after it ran on client c
__aexit__(c, exc_type) ==
    IF _client[c] # None THEN aclose(sessions, _client[c]) ELSE sessions

\* The innermost open block of c is left, by normal completion of its body
\* or by the exception propagating out of it. __aexit__ returns None, so
\* the exception keeps propagating.
Exit(c) ==
    /\ ~Unbound(c)
    /\ LET sid == scopes[c][Len(scopes[c])]
           after == __aexit__(c, raised[c])
       IN  sessions' = [after EXCEPT ![sid].exit = ExitPath(raised[c])]
    /\ scopes' = [scopes EXCEPT ![c] = SubSeq(@, 1, Len(@) - 1)]
    /\ UNCHANGED <<_client, raised, server, calls, requests, last, previous, query_url,
                   transform_vars, config_vars>>

\* The caller's except clause handles the exception fetch_metric raised.
\* A cancelled task is not resumed.
Handle(c) ==
    /\ raised[c] \notin {"None", "CancelledError"}
    /\ raised' = [raised EXCEPT ![c] = "None"]
    /\ UNCHANGED <<_client, sessions, scopes, server, calls, requests, last, previous,
                   query_url, transform_vars, config_vars>>

(***************************************************************************)
(* The answers the endpoint may give.                                      *)
(***************************************************************************)
\* entries of "result" the endpoint sends: a good series, a non-numeric
\* value, a short array, a null value, a null second element, and an entry
\* that is no mapping
FetchSeries ==
    { Item("dict", Metric("dict", {<<"instance", "lxc-01">>}),
           Value("list", <<Timestamp, Elem("str", "0.85")>>)),
      Item("dict", Metric("dict", {<<"instance", "bad">>}),
           Value("list", <<Timestamp, Elem("str", "not-a-float")>>)),
      Item("dict", Metric("dict", {<<"instance", "no-value">>}),
           Value("list", <<Timestamp>>)),
      Item("dict", Metric("dict", {<<"instance", "null-value">>}), Value("null", <<>>)),
      Item("dict", Metric("dict", {<<"instance", "null-second">>}),
           Value("list", <<Timestamp, Elem("null", "")>>)),
      NonMapping("str") }

\* decoded top-level mappings
Bodies ==
    { RawData("success", "absent", d) : d \in DataShapes(FetchSeries) }
    \cup { RawData(st, err, NoData) :
              st \in {"absent", "error", "null"}, err \in {"absent", "bad_data"} }

\* bodies sent with a status other than 200
FewBodies ==
    { EmptyBody, RawData("error", "bad_data", NoData),
      RawData("success", "absent", Data("dict", Result("list", <<>>))) }

StatusCodes == {200, 204, 302, 404, 500}

Servers ==
    { Response("RequestError", 0, "none", "none", EmptyBody) }
    \cup { Response("response", 200, "json", "dict", b) : b \in Bodies }
    \cup { Response("response", code, "json", "dict", b) :
              code \in StatusCodes \ {200}, b \in FewBodies }
    \cup { Response("response", code, "json", "list", EmptyBody) : code \in StatusCodes }
    \cup { Response("response", code, "not-json", "none", EmptyBody) : code \in StatusCodes }

\* answers of an endpoint that is down, failing, or rejecting the query
Outages ==
    { Response("RequestError", 0, "none", "none", EmptyBody),
      Response("response", 500, "json", "dict", RawData("error", "bad_data", NoData)),
      Response("response", 200, "json", "dict", RawData("error", "bad_data", NoData)),
      Response("response", 200, "json", "dict", RawData("error", "absent", NoData)) }

\* answers of an endpoint that evaluates the query: one series, and none
Healthy ==
    { Response("response", 200, "json", "dict",
               RawData("success", "absent", Data("dict", Result("list",
                   << Item("dict", Metric("dict", {<<"instance", "lxc-01">>}),
                           Value("list", <<Timestamp, Elem("str", "0.85")>>)) >>)))),
      Response("response", 200, "json", "dict",
               RawData("success", "absent", Data("dict", Result("list", <<>>)))) }

\* what an endpoint whose answer changes between two requests gives
Endpoints == Outages \cup Healthy

\* The endpoint goes down, comes back, or gets new samples between two
\* requests.
ServerChanges ==
    /\ server' \in Endpoints \ {server}
    /\ UNCHANGED <<_client, sessions, scopes, raised, calls, requests, last, previous,
                   query_url, transform_vars, config_vars>>

\* an endpoint that is evaluating the query or answering 500
Flapping ==
    { r \in Endpoints :
        \/ r.status_code = 500
        \/ r.status_code = 200 /\ r.body.status = "success"
                               /\ r.body.data.result.items # <<>> }

\* The endpoint starts answering 500 between two requests.
ServerFails ==
    /\ server.status_code = 200
    /\ server' \in {r \in Flapping : r.status_code = 500}
    /\ UNCHANGED <<_client, sessions, scopes, raised, calls, requests, last, previous,
                   query_url, transform_vars, config_vars>>

(***************************************************************************)
(* Configuration: YampConfig and load_config.                              *)
(***************************************************************************)
\* An optional string: a key of the document or a variable of the
\* environment that may be missing, and may be the empty string.
Some(v) == [set |-> TRUE, val |-> v]

Absent == [set |-> FALSE, val |-> ""]

\* Field(default=30, gt=0)
DefaultRefreshInterval == 30

\* A dashboard of the document; refresh_interval 0 - 1 stands for no key.
DashboardDoc(name, refresh_interval, metrics) ==
    [name |-> name, refresh_interval |-> refresh_interval, metrics |-> metrics]

NoInterval == 0 - 1

\* The optional "dashboards" key: a list of dashboards when set.
SomeList(l) == [set |-> TRUE, val |-> l]

AbsentList == [set |-> FALSE, val |-> <<>>]

\* What yaml.safe_load makes of the file: a YAMLError when the syntax is
\* malformed; else None (empty), a str or a list, or a mapping with some
\* of the four keys.
Doc(syntax, top, prometheus_url, pushover_token, pushover_user, dashboards) ==
    [syntax |-> syntax, top |-> top, prometheus_url |-> prometheus_url,
     pushover_token |-> pushover_token, pushover_user |-> pushover_user,
     dashboards |-> dashboards]

NonMappingDoc(syntax, top) == Doc(syntax, top, Absent, Absent, Absent, AbsentList)

\* A path of the file system: no file, or a file holding a document.
NoFile == [exists |-> FALSE, doc |-> NonMappingDoc("ok", "empty")]

File(doc) == [exists |-> TRUE, doc |-> doc]

\* Path(__file__).parent.parent.parent / "config" / "yamp.yaml"
DefaultPath == "config/yamp.yaml"

CustomPath == "/tmp/custom.yaml"

Paths == {DefaultPath, CustomPath}

\* get_config_path(): YAMP_CONFIG_PATH when set and not empty
get_config_path(env) ==
    IF env.YAMP_CONFIG_PATH.set /\ env.YAMP_CONFIG_PATH.val # ""
        THEN env.YAMP_CONFIG_PATH.val
        ELSE DefaultPath

\* HttpUrl: <<"ok", normalised url>> or <<"invalid">>; a URL with no path gets
\* the path "/"
HttpUrl(s) ==
    CASE s = "http://localhost:9090"  -> <<"ok", "http://localhost:9090/">>
      [] s = "http://localhost:9090/" -> <<"ok", "http://localhost:9090/">>
      [] s = "https://prom.example/p" -> <<"ok", "https://prom.example/p">>
      [] OTHER                        -> <<"invalid">>

\* Dashboard validation: refresh_interval must be > 0 when given
DashboardValid(d) == d.refresh_interval = NoInterval \/ d.refresh_interval > 0

\* The validated Dashboard, defaults filled in
Dashboard(d) ==
    [name |-> d.name,
     refresh_interval |-> IF d.refresh_interval = NoInterval
                              THEN DefaultRefreshInterval
                              ELSE d.refresh_interval,
     metrics |-> d.metrics]

Dashboards(l) == [i \in 1..Len(l) |-> Dashboard(l[i])]

\* YAMP_DASHBOARDS is decoded as JSON
DashboardsFromEnv(v) ==
    IF v.set THEN SomeList(<<>>) ELSE AbsentList

\* YampConfig(**config_data): a BaseSettings model takes each field from the
\* keyword arguments when given there, and else from the environment
\* variable YAMP_<FIELD>.
SettingsSources(kwargs, env) ==
    [prometheus_url |-> IF kwargs.prometheus_url.set
                            THEN kwargs.prometheus_url ELSE env.YAMP_PROMETHEUS_URL,
     pushover_token |-> IF kwargs.pushover_token.set
                            THEN kwargs.pushover_token ELSE env.YAMP_PUSHOVER_TOKEN,
     pushover_user  |-> IF kwargs.pushover_user.set
                            THEN kwargs.pushover_user ELSE env.YAMP_PUSHOVER_USER,
     dashboards     |-> IF kwargs.dashboards.set
                            THEN kwargs.dashboards
                            ELSE DashboardsFromEnv(env.YAMP_DASHBOARDS)]

\* The fields the ValidationError lists.
InvalidFields(m) ==
    { f \in {"prometheus_url"} :
        ~m.prometheus_url.set \/ HttpUrl(m.prometheus_url.val)[1] # "ok" }
    \cup { f \in {"pushover_token"} : ~m.pushover_token.set }
    \cup { f \in {"pushover_user"} : ~m.pushover_user.set }
    \cup { f \in {"dashboards"} :
            ~m.dashboards.set
            \/ \E i \in 1..Len(m.dashboards.val) : ~DashboardValid(m.dashboards.val[i]) }

\* The YampConfig instance
YampConfig(m) ==
    [prometheus_url |-> HttpUrl(m.prometheus_url.val)[2],
     pushover_token |-> m.pushover_token.val,
     pushover_user  |-> m.pushover_user.val,
     dashboards     |-> Dashboards(m.dashboards.val)]

NoConfig ==
    [prometheus_url |-> "", pushover_token |-> "", pushover_user |-> "",
     dashboards |-> <<>>]

\* Outcomes of load_config: the configuration, or the exception that
\* escapes, with the start of its message, the fields it names and its
\* __cause__.
Loaded(config) ==
    [exc |-> "none", prefix |-> "", fields |-> {}, cause |-> "None", config |-> config]

LoadFails(exc, prefix, fields, cause) ==
    [exc |-> exc, prefix |-> prefix, fields |-> fields, cause |-> cause,
     config |-> NoConfig]

NotLoaded == LoadFails("not-called", "", {}, "None")

\* load_config without the path.exists() check: path.open raises
\* FileNotFoundError for a missing file.
load_config_no_exists_check(env, fs) ==
    LET path == get_config_path(env)
        file == fs[path]
    IN  IF ~file.exists
            THEN LoadFails("FileNotFoundError", "", {}, "None")
        ELSE IF file.doc.syntax # "ok"
            THEN LoadFails("ConfigError", "Error parsing YAML file: ", {}, "YAMLError")
        ELSE IF file.doc.top # "mapping"
            THEN LoadFails("TypeError", "", {}, "None")
        ELSE
            LET merged == SettingsSources(file.doc, env)
            IN  IF InvalidFields(merged) # {}
                    THEN LoadFails("ConfigError", "Configuration validation error: ",
                                   InvalidFields(merged), "ValidationError")
                    ELSE Loaded(YampConfig(merged))

\* load_config validating the settings of the environment before the
\* document is parsed.
load_config_validates_first(env, fs) ==
    LET path == get_config_path(env)
        file == fs[path]
        merged == SettingsSources(file.doc, env)
    IN  IF ~file.exists
            THEN LoadFails("ConfigError", "Config file not found at ", {}, "None")
        ELSE IF InvalidFields(merged) # {}
            THEN LoadFails("ConfigError", "Configuration validation error: ",
                           InvalidFields(merged), "ValidationError")
        ELSE IF file.doc.syntax # "ok"
            THEN LoadFails("ConfigError", "Error parsing YAML file: ", {}, "YAMLError")
        ELSE IF file.doc.top # "mapping"
            THEN LoadFails("TypeError", "", {}, "None")
        ELSE Loaded(YampConfig(merged))

load_config(env, fs) ==
    LET path == get_config_path(env)
        file == fs[path]
    IN  IF ~file.exists
            THEN LoadFails("ConfigError", "Config file not found at ", {}, "None")
        ELSE IF file.doc.syntax # "ok"
            THEN LoadFails("ConfigError", "Error parsing YAML file: ", {}, "YAMLError")
        ELSE IF file.doc.top # "mapping"
            \* YampConfig(**config_data): the argument after ** must be a mapping
            THEN LoadFails("TypeError", "", {}, "None")
        ELSE
            LET merged == SettingsSources(file.doc, env)
            IN  IF InvalidFields(merged) # {}
                    THEN LoadFails("ConfigError", "Configuration validation error: ",
                                   InvalidFields(merged), "ValidationError")
                    ELSE Loaded(YampConfig(merged))

LoadConfig ==
    /\ loaded = NotLoaded
    /\ loaded' = load_config(environ, files)
    /\ UNCHANGED <<environ, files, transform_vars, client_vars>>

(***************************************************************************)
(* The documents and environments the model draws from.                    *)
(***************************************************************************)
UrlsInFile ==
    { Absent, Some("http://localhost:9090"), Some("https://prom.example/p"),
      Some("not a url") }

SecretsInFile(v) == { Absent, Some(""), Some(v) }

DashboardsInFile ==
    { AbsentList, SomeList(<<>>),
      SomeList(<<DashboardDoc("Test Dash", NoInterval, <<"CPU">>)>>),
      SomeList(<<DashboardDoc("Bad Dash", 0, <<>>)>>) }

Docs ==
    { NonMappingDoc("malformed", "none"), NonMappingDoc("ok", "empty"),
      NonMappingDoc("ok", "str"), NonMappingDoc("ok", "list") }
    \cup { Doc("ok", "mapping", u, t, usr, d) :
             u \in UrlsInFile, t \in SecretsInFile("file-token"),
             usr \in SecretsInFile("file-user"), d \in DashboardsInFile }

Environments ==
    [YAMP_CONFIG_PATH    : {Absent, Some(""), Some(CustomPath)},
     YAMP_PROMETHEUS_URL : {Absent, Some("http://localhost:9090/")},
     YAMP_PUSHOVER_TOKEN : {Absent, Some(""), Some("token123")},
     YAMP_PUSHOVER_USER  : {Absent, Some(""), Some("user456")},
     YAMP_DASHBOARDS     : {Absent, Some("[]")}]

\* the file at the resolved path is any of Docs or missing; the other path
\* holds nothing or a complete document
ValidDoc ==
    Doc("ok", "mapping", Some("http://localhost:9090"), Some("file-token"),
        Some("file-user"), SomeList(<<>>))

FileSystems(env) ==
    { [p \in Paths |-> IF p = get_config_path(env) THEN f ELSE g] :
        f \in {NoFile} \cup { File(d) : d \in Docs },
        g \in {NoFile, File(ValidDoc)} }

\* The process before load_config is called, in a bare environment.
NoLoadCall ==
    /\ environ = [YAMP_CONFIG_PATH |-> Absent, YAMP_PROMETHEUS_URL |-> Absent,
                  YAMP_PUSHOVER_TOKEN |-> Absent, YAMP_PUSHOVER_USER |-> Absent,
                  YAMP_DASHBOARDS |-> Absent]
    /\ files = [p \in Paths |-> NoFile]
    /\ loaded = NotLoaded

(***************************************************************************)
(* Specifications.                                                         *)
(***************************************************************************)
\* PrometheusClient.__init__ for every client, before any call
\* no fetch_metric call on record
NoCall ==
    [outcome |-> NotCalled, unbound |-> TRUE, sent |-> FALSE, response |-> NoResponse,
     url |-> NoUrl]

\* PrometheusClient(base_url) for every instance
ClientsConstructed ==
    /\ _client = [c \in Clients |-> None]
    /\ sessions = <<>>
    /\ scopes = [c \in Clients |-> <<>>]
    /\ raised = [c \in Clients |-> "None"]
    /\ calls = [c \in Clients |-> 0]
    /\ requests = [c \in Clients |-> 0]
    /\ last = [c \in Clients |-> NoCall]
    /\ previous = [c \in Clients |-> NoCall]
    /\ \E base_url \in [Clients -> BaseUrls] :
           query_url = [c \in Clients |-> QueryUrl(base_url[c])]

NoTransformCall ==
    /\ raw_data = EmptyBody
    /\ transformed = NotCalled

\* One client, used in any order of entries, exits and fetches, against an
\* endpoint that gives one of Servers.
Init ==
    /\ ClientsConstructed
    /\ server \in Servers
    /\ NoTransformCall
    /\ NoLoadCall

Next ==
    \/ Enter("c1")
    \/ Reenter("c1")
    \/ FetchMetric("c1")
    \/ Exit("c1")
    \/ Handle("c1")

Spec == Init /\ [][Next]_vars

\* One client whose `async with` blocks are not nested (the supported use).
NextScoped ==
    \/ Enter("c1")
    \/ FetchMetric("c1")
    \/ Exit("c1")
    \/ Handle("c1")

SpecScoped == Init /\ [][NextScoped]_vars

\* One client in blocks that are not nested, against an endpoint whose answer
\* changes between requests.
InitEndpoint ==
    /\ ClientsConstructed
    /\ server \in Endpoints
    /\ NoTransformCall
    /\ NoLoadCall

NextEndpoint ==
    \/ Enter("c1")
    \/ FetchMetric("c1")
    \/ Exit("c1")
    \/ Handle("c1")
    \/ ServerChanges

SpecEndpoint == InitEndpoint /\ [][NextEndpoint]_vars

\* Two clients, each in blocks that are not nested, their operations
\* interleaved in any order.
InitTwo ==
    /\ ClientsConstructed
    /\ server \in Flapping
    /\ NoTransformCall
    /\ NoLoadCall

NextTwo ==
    \/ \E c \in Clients :
          \/ Enter(c)
          \/ FetchMetric(c)
          \/ Exit(c)
          \/ Handle(c)
    \/ ServerFails

SpecTwo == InitTwo /\ [][NextTwo]_vars

\* _transform_data applied to every payload shape.
InitTransform ==
    /\ ClientsConstructed
    /\ server = Response("RequestError", 0, "none", "none", EmptyBody)
    /\ raw_data \in TransformInputs
    /\ transformed = NotCalled
    /\ NoLoadCall

NextTransform == CallTransform

SpecTransform == InitTransform /\ [][NextTransform]_vars

\* load_config called once, on every document and environment.
InitConfig ==
    /\ ClientsConstructed
    /\ server = Response("RequestError", 0, "none", "none", EmptyBody)
    /\ NoTransformCall
    /\ environ \in Environments
    /\ files \in FileSystems(environ)
    /\ loaded = NotLoaded

NextConfig == LoadConfig

SpecConfig == InitConfig /\ [][NextConfig]_vars

(***************************************************************************)
(* Properties of the client.                                               *)
(***************************************************************************)
Called(c) == last[c].outcome.exc # "not-called"

\* The call of c put a request on the wire and got its answer.
Answered(c) == Called(c) /\ last[c].response # NoResponse

\* The error kinds, told apart by the message of PrometheusClientError.
IsClientError(out, prefix) ==
    out.exc = "PrometheusClientError" /\ out.prefix = prefix

ClientNotInitialized(out) == IsClientError(out, "Client not initialized. Use 'async with'")

ConnectionError(out) == IsClientError(out, "Connection to Prometheus failed: ")

HttpStatusError(out) == IsClientError(out, "Prometheus returned status ")

ApiError(out) == IsClientError(out, "Prometheus API error: ")

\* C1: a fetch_metric call made while no `async with` block of the client is
\* open (never entered, or every block left) fails with the "Client not
\* initialized" error and sends no request.
C1_UnboundFetchFails ==
    \A c \in Clients :
        (Called(c) /\ last[c].unbound) =>
            (ClientNotInitialized(last[c].outcome) /\ ~last[c].sent)

\* C2: every session acquired by an `async with` entry is closed exactly once:
\* not before its block is left, and once when the block has been left, by
\* normal completion, by an exception of fetch_metric, or by cancellation.
C2_ReleasedExactlyOnce ==
    \A sid \in 1..Len(sessions) :
        /\ sessions[sid].exit = "in-scope" =>
              (sessions[sid].aclose_calls = 0 /\ sessions[sid].state = "open")
        /\ sessions[sid].exit # "in-scope" =>
              (sessions[sid].aclose_calls = 1 /\ sessions[sid].state = "closed")

\* Three blocks have been left, one on each exit path, the second by the
\* PrometheusClientError of a fetch, each with its session closed once.
C2_Witness ==
    /\ Len(sessions) = 3
    /\ sessions[1].exit = "normal" /\ sessions[1].aclose_calls = 1
    /\ sessions[2].exit = "raised" /\ sessions[2].aclose_calls = 1
    /\ sessions[3].exit = "cancelled" /\ sessions[3].aclose_calls = 1
    /\ last["c1"].outcome.exc = "CancelledError"

\* The response carries a JSON body whose top level is a mapping.
JsonMapping(resp) ==
    resp.transport = "response" /\ resp.content = "json" /\ resp.top = "dict"

\* The data payload is absent, or a mapping whose result is absent or an
\* array (of entries of any shape).
ResultIsArray(body) ==
    \/ body.data.dt = "absent"
    \/ body.data.dt = "dict" /\ body.data.result.rt \in {"absent", "list"}

\* C6: an answered call whose response is 2xx with status "success" returns
\* a list and raises nothing, whatever the entries of the result array hold.
C6_SuccessNeverRaises ==
    \A c \in Clients :
        (Answered(c) /\ is_success(last[c].response) /\ JsonMapping(last[c].response)
            /\ last[c].response.body.status = "success"
            /\ ResultIsArray(last[c].response.body)) =>
            last[c].outcome.exc = "none"

\* C7: a fetch_metric call that fails (cancellation aside) fails with
\* PrometheusClientError of one of the four kinds.
C7_OnlyClientErrors ==
    \A c \in Clients :
        (Called(c) /\ last[c].outcome.exc \notin {"none", "CancelledError"}) =>
            \/ ClientNotInitialized(last[c].outcome)
            \/ ConnectionError(last[c].outcome)
            \/ HttpStatusError(last[c].outcome)
            \/ ApiError(last[c].outcome)

\* C8: an answered call whose response is 2xx with a top-level mapping whose
\* status is absent or not "success" fails with the API error carrying the
\* body's error string, or the placeholder when there is none.
C8_NonSuccessIsApiError ==
    \A c \in Clients :
        (Answered(c) /\ is_success(last[c].response) /\ JsonMapping(last[c].response)
            /\ last[c].response.body.status # "success") =>
            /\ ApiError(last[c].outcome)
            /\ last[c].outcome.detail =
                  IF last[c].response.body.error = "absent"
                      THEN "Unknown Prometheus API error"
                      ELSE last[c].response.body.error
            /\ last[c].outcome.results = <<>>

\* C9: an answered call whose response is not 2xx fails with the HTTP status
\* error carrying the status code, whatever the body holds.
C9_Non2xxIsHttpStatusError ==
    \A c \in Clients :
        (Answered(c) /\ last[c].response.transport = "response"
            /\ last[c].response.status_code \notin 200..299) =>
            /\ HttpStatusError(last[c].outcome)
            /\ last[c].outcome.detail = ToString(last[c].response.status_code)

\* A 500 whose body is a mapping with status "error" and an error string
\* was answered with the HTTP status error.
C9_Witness ==
    /\ Answered("c1")
    /\ last["c1"].response.status_code = 500
    /\ JsonMapping(last["c1"].response)
    /\ last["c1"].response.body.status = "error"
    /\ last["c1"].response.body.error = "bad_data"
    /\ last["c1"].outcome = ClientError("Prometheus returned status ", "500")

(***************************************************************************)
(* Properties of _transform_data.                                          *)
(***************************************************************************)
\* The series has a value array of at least two elements whose second
\* element parses as a float.
HasParseableValue(item) ==
    /\ item.value.vt = "list"
    /\ Len(item.value.elems) >= 2
    /\ float(item.value.elems[2])[1] = "ok"

RECURSIVE EmittedSeries(_)
EmittedSeries(items) ==
    IF items = <<>>
        THEN <<>>
        ELSE IF HasParseableValue(Head(items))
            THEN <<[metric |-> Head(items).metric,
                    value  |-> float(Head(items).value.elems[2])[2]]>>
                 \o EmittedSeries(Tail(items))
            ELSE EmittedSeries(Tail(items))

\* Every entry is a mapping with a label mapping, whose value is missing or
\* an array of strings and numbers.
PlainSeries(items) ==
    \A i \in 1..Len(items) :
        /\ items[i].shape = "dict"
        /\ items[i].metric.mt = "dict"
        /\ items[i].value.vt \in {"absent", "list"}
        /\ \A j \in 1..Len(items[i].value.elems) :
              items[i].value.elems[j].et \in {"str", "num"}

\* C5: on a result array of such entries, the output is exactly the series
\* with a parseable value array, in input order, each with its own labels and
\* its parsed value; the others (value missing, short, non-numeric) are
\* skipped.
C5_EmitsIffParseable ==
    (/\ transformed # NotCalled
     /\ raw_data.data.dt = "dict"
     /\ raw_data.data.result.rt = "list"
     /\ PlainSeries(raw_data.data.result.items)) =>
        transformed = Returned(EmittedSeries(raw_data.data.result.items))

(***************************************************************************)
(* Properties of load_config.                                              *)
(***************************************************************************)
LoadCalled == loaded.exc # "not-called"

\* the file load_config reads
ConfigFile == files[get_config_path(environ)]

\* The three kinds of ConfigError, told apart by the start of the message.
ConfigNotFound(out) ==
    out.exc = "ConfigError" /\ out.prefix = "Config file not found at "

ConfigParseError(out) ==
    out.exc = "ConfigError" /\ out.prefix = "Error parsing YAML file: "

ConfigValidationError(out) ==
    out.exc = "ConfigError" /\ out.prefix = "Configuration validation error: "

\* C3: when load_config returns and both secret variables are set, the
\* configuration's token and user are the environment's values, also when
\* the document has values for them, and the fields the document supplies
\* besides them are the document's values.
C3_EnvironmentWinsForSecrets ==
    (/\ LoadCalled
     /\ loaded.exc = "none"
     /\ environ.YAMP_PUSHOVER_TOKEN.set
     /\ environ.YAMP_PUSHOVER_USER.set) =>
        /\ loaded.config.pushover_token = environ.YAMP_PUSHOVER_TOKEN.val
        /\ loaded.config.pushover_user = environ.YAMP_PUSHOVER_USER.val
        /\ ConfigFile.doc.prometheus_url.set =>
              loaded.config.prometheus_url = HttpUrl(ConfigFile.doc.prometheus_url.val)[2]
        /\ ConfigFile.doc.dashboards.set =>
              loaded.config.dashboards = Dashboards(ConfigFile.doc.dashboards.val)

\* C4: whatever the file holds, load_config either returns a validated
\* configuration or raises a ConfigError of one of the three kinds.
C4_ConfigOrConfigError ==
    LoadCalled =>
        \/ /\ loaded.exc = "none"
           /\ HttpUrl(loaded.config.prometheus_url)[1] = "ok"
           /\ \A i \in 1..Len(loaded.config.dashboards) :
                 loaded.config.dashboards[i].refresh_interval > 0
        \/ ConfigNotFound(loaded)
        \/ ConfigParseError(loaded)
        \/ ConfigValidationError(loaded)

\* The fields of a well-formed document the claim says are reported:
\* prometheus_url when the document has none, a secret when neither the
\* document nor its environment variable has it.
OmittedFields ==
    { f \in {"prometheus_url"} : ~ConfigFile.doc.prometheus_url.set }
    \cup { f \in {"pushover_token"} :
             ~ConfigFile.doc.pushover_token.set /\ ~environ.YAMP_PUSHOVER_TOKEN.set }
    \cup { f \in {"pushover_user"} :
             ~ConfigFile.doc.pushover_user.set /\ ~environ.YAMP_PUSHOVER_USER.set }

\* C10: for a well-formed document (and YAMP_PROMETHEUS_URL not set), when
\* the document omits prometheus_url or a secret is in neither the document
\* nor the environment, load_config raises the validation error, its message
\* names each such field and its cause is the ValidationError.
C10_MissingFieldIsValidationError ==
    (/\ LoadCalled
     /\ ConfigFile.exists
     /\ ConfigFile.doc.syntax = "ok"
     /\ ~environ.YAMP_PROMETHEUS_URL.set
     /\ OmittedFields # {}) =>
        /\ ConfigValidationError(loaded)
        /\ OmittedFields \subseteq loaded.fields
        /\ loaded.cause = "ValidationError"

\* C11: a configuration load_config returns has a non-empty token and a
\* non-empty user.
C11_CredentialsNonEmpty ==
    (LoadCalled /\ loaded.exc = "none") =>
        (loaded.config.pushover_token # "" /\ loaded.config.pushover_user # "")

\* C12: when no file is at the resolved path, load_config raises the "not
\* found" ConfigError, whatever the environment and the other path hold.
C12_MissingFileIsNotFound ==
    (LoadCalled /\ ~ConfigFile.exists) => ConfigNotFound(loaded)

\* No file at the path YAMP_CONFIG_PATH names, a complete document at the
\* default path, no secret in the environment: "not found" was raised.
C12_Witness ==
    /\ ConfigNotFound(loaded)
    /\ get_config_path(environ) = CustomPath
    /\ ~files[CustomPath].exists
    /\ files[DefaultPath] = File(ValidDoc)
    /\ ~environ.YAMP_PUSHOVER_TOKEN.set
    /\ ~environ.YAMP_PUSHOVER_USER.set

\* C13: a file with malformed syntax at the resolved path makes load_config
\* raise the parse ConfigError, caused by the YAMLError, whether or not the
\* secrets are in the environment.
C13_MalformedIsParseError ==
    (LoadCalled /\ ConfigFile.exists /\ ConfigFile.doc.syntax # "ok") =>
        (ConfigParseError(loaded) /\ loaded.cause = "YAMLError")

\* A malformed document was loaded with neither secret in the environment
\* and the parse error was raised.
C13_Witness ==
    /\ ConfigParseError(loaded)
    /\ ConfigFile.exists
    /\ ConfigFile.doc.syntax = "malformed"
    /\ ~environ.YAMP_PUSHOVER_TOKEN.set
    /\ ~environ.YAMP_PUSHOVER_USER.set
    /\ ~environ.YAMP_PROMETHEUS_URL.set

(***************************************************************************)
(* Properties of the life cycle of the client.                             *)
(***************************************************************************)
\* The sessions c has created and not closed.
Unreleased(c) ==
    {sid \in 1..Len(sessions) :
        sessions[sid].owner = c /\ sessions[sid].state = "open"}

\* c has left an `async with` block.
HasExited(c) ==
    \E sid \in 1..Len(sessions) :
        sessions[sid].owner = c /\ sessions[sid].exit # "in-scope"

\* What fetch_metric does on a client that was constructed and never entered.
NeverAcquiredFetch == ClientError("Client not initialized. Use 'async with'", "")

\* C14: once the `async with` block of a client has been left, on any exit
\* path, the client holds no open session and fetch_metric treats it as a
\* client that was never entered.
C14_ExitUnbinds ==
    \A c \in Clients :
        (HasExited(c) /\ Unbound(c)) =>
            /\ Unreleased(c) = {}
            /\ ~SendsRequest(c)
            /\ fetch_metric(c, FALSE) = NeverAcquiredFetch

\* C15: whatever entries and exits a client has gone through, nested ones
\* included, it has at most one session open, and none once every block it
\* entered has been left.
C15_AtMostOneUnreleased ==
    \A c \in Clients :
        /\ Cardinality(Unreleased(c)) <= 1
        /\ Unbound(c) => Unreleased(c) = {}

(***************************************************************************)
(* Properties of consecutive fetch_metric calls.                           *)
(***************************************************************************)
\* The three failures of the request: transport, status code, API status.
RequestFailure(out) == ConnectionError(out) \/ HttpStatusError(out) \/ ApiError(out)

\* This step is a fetch_metric call of c.
FetchStep(c) == calls'[c] = calls[c] + 1

\* c is inside the only `async with` block it has entered.
SingleScope(c) ==
    /\ ~Unbound(c)
    /\ Cardinality({sid \in 1..Len(sessions) : sessions[sid].owner = c}) = 1

\* C16: a fetch_metric call that raises the connection, status or API error
\* leaves self._client, the sessions and the open blocks as they were, the
\* session still open, so that the next call sends its request and its
\* outcome is what the answer to that request gives.
C16_FailedFetchKeepsClient ==
    /\ [][\A c \in Clients :
            (FetchStep(c) /\ RequestFailure(last'[c].outcome)) =>
                /\ _client'[c] = _client[c]
                /\ sessions' = sessions
                /\ scopes' = scopes
                /\ Unreleased(c)' = {_client[c]}
                /\ SendsRequest(c)'
                /\ fetch_metric(c, FALSE)' = HandleResponse(server')]_vars
    /\ [](\A c \in Clients :
            (Called(c) /\ RequestFailure(previous[c].outcome) /\ SingleScope(c)) =>
                /\ last[c].sent
                /\ \/ last[c].outcome.exc = "CancelledError"
                   \/ last[c].outcome = HandleResponse(last[c].response))

\* In one block, a first call failed with one of the three errors and the
\* second call sent its request on the same session and returned a series.
C16_Witness ==
    /\ calls["c1"] = 2
    /\ requests["c1"] = 2
    /\ RequestFailure(previous["c1"].outcome)
    /\ last["c1"].outcome.exc = "none"
    /\ last["c1"].outcome.results # <<>>
    /\ SingleScope("c1")
    /\ Unreleased("c1") = {_client["c1"]}

\* C17: a fetch_metric call made inside an `async with` block sends one GET
\* to <base_url>/api/v1/query, whatever its outcome, and that outcome comes
\* from the answer to this request; a call made outside a block sends none.
C17_OneRequestPerCall ==
    /\ [][\A c \in Clients :
            FetchStep(c) =>
                /\ requests'[c] = requests[c] + (IF Unbound(c) THEN 0 ELSE 1)
                /\ ~Unbound(c) =>
                      /\ last'[c].sent
                      /\ last'[c].url = <<Authority, "/", "api", "/", "v1", "/", "query">>
                      /\ last'[c].outcome.exc # "CancelledError" =>
                            /\ last'[c].response = server
                            /\ last'[c].outcome = HandleResponse(server)
                /\ Unbound(c) => (~last'[c].sent /\ last'[c].url = NoUrl)]_vars
    /\ [](\A c \in Clients : requests[c] <= calls[c])

\* Two calls in a block sent two requests; the first returned a series and
\* the second, after the endpoint went down, failed.
C17_Witness ==
    /\ calls["c1"] = 2
    /\ requests["c1"] = 2
    /\ previous["c1"].outcome.exc = "none"
    /\ previous["c1"].outcome.results # <<>>
    /\ RequestFailure(last["c1"].outcome)
    /\ last["c1"].response # previous["c1"].response
    /\ SingleScope("c1")

(***************************************************************************)
(* Properties of two clients used side by side.                            *)
(***************************************************************************)
\* The attributes of c and what its caller knows of it.
Own(c) ==
    <<_client[c], scopes[c], raised[c], calls[c], requests[c], last[c], previous[c],
      query_url[c]>>

\* The sessions c has created, by id.
OwnSessions(c) ==
    [sid \in {i \in 1..Len(sessions) : sessions[i].owner = c} |-> sessions[sid]]

\* C18: with two clients whose entries, fetches and exits interleave, a step
\* of one client leaves the attributes and the sessions of the other as they
\* were; the outcome of an answered call is what its own response gives; and
\* every session is closed once, when its own block is left.
C18_ClientsIndependent ==
    /\ [][\A c \in Clients : \A d \in Clients \ {c} :
            (Own(c)' # Own(c) \/ OwnSessions(c)' # OwnSessions(c)) =>
                (Own(d)' = Own(d) /\ OwnSessions(d)' = OwnSessions(d))]_vars
    /\ [](\A c \in Clients :
            Answered(c) => last[c].outcome = HandleResponse(last[c].response))
    /\ [](\A c \in Clients : \A sid \in DOMAIN OwnSessions(c) :
            /\ sessions[sid].exit = "in-scope" =>
                  (sessions[sid].aclose_calls = 0 /\ sessions[sid].state = "open"
                   /\ _client[c] = sid /\ scopes[c] = <<sid>>)
            /\ sessions[sid].exit # "in-scope" =>
                  (sessions[sid].aclose_calls = 1 /\ sessions[sid].state = "closed"))

\* While c1 was inside its block, c2 entered a block, failed a fetch and
\* left the block with its session closed; c1 is still bound to its open
\* session and its fetch returned a series.
C18_Witness ==
    /\ Len(sessions) = 2
    /\ sessions[1].owner = "c1"
    /\ sessions[1].exit = "in-scope" /\ sessions[1].state = "open"
    /\ sessions[2].owner = "c2"
    /\ sessions[2].exit = "raised" /\ sessions[2].aclose_calls = 1
    /\ RequestFailure(last["c2"].outcome)
    /\ last["c1"].outcome.exc = "none"
    /\ last["c1"].outcome.results # <<>>
    /\ SendsRequest("c1")

====
